---------------------------- MODULE Spec2Model ----------------------------
(***************************************************************************)
(* Model of UnityMcpServer~/src/config.py: the ServerConfig dataclass, its *)
(* __post_init__ hook that fills the default whitelist, and the module-    *)
(* level instance `config`.                                                *)
(*                                                                         *)
(* Python lists are objects with identity, so the model keeps a heap of    *)
(* list objects and every instance holds a reference into it.  Reference   *)
(* 0 is Python's None.                                                     *)
(***************************************************************************)
EXTENDS Integers, Sequences, FiniteSets, TLC

VARIABLES
    heap,       \* list objects, in allocation order: heap[r] is the list with reference r
    instances,  \* the ServerConfig objects built so far; instances[1] is the global `config`
    calls,      \* one record per constructor call: the whitelist argument and what was returned
    last,       \* the most recent operation and its outcome
    mutations   \* number of post-construction writes performed so far

vars == <<heap, instances, calls, last, mutations>>

----------------------------------------------------------------------------
(* Bounds of the model *)

MaxInstances == 2
MaxMutations == 1

----------------------------------------------------------------------------
(* Field defaults of the dataclass (the float defaults 86400.0 and 1.0 are *)
(* written as the integers they equal)                                     *)

NoneRef == 0

DEFAULT_UNITY_HOST == "localhost"
DEFAULT_UNITY_PORT == 6400
DEFAULT_MCP_PORT == 6500
DEFAULT_CONNECTION_TIMEOUT == 86400
DEFAULT_BUFFER_SIZE == 16 * 1024 * 1024
DEFAULT_LOG_LEVEL == "INFO"
DEFAULT_MAX_RETRIES == 3
DEFAULT_RETRY_DELAY == 1
DEFAULT_AUTO_APPROVE_TOOLS == TRUE

(* The list literal of __post_init__, in source order. *)
EditorActions ==
    << "manage_editor.get_state",
       "manage_editor.get_compilation_status",
       "manage_editor.refresh_assets",
       "manage_editor.save_assets",
       "manage_editor.recompile_scripts",
       "manage_editor.full_refresh",
       "manage_editor.get_tags",
       "manage_editor.get_layers",
       "manage_editor.add_tag",
       "manage_editor.remove_tag",
       "manage_editor.add_layer",
       "manage_editor.remove_layer",
       "manage_editor.play",
       "manage_editor.pause",
       "manage_editor.stop" >>

SceneActions ==
    << "manage_scene.get_hierarchy",
       "manage_scene.load",
       "manage_scene.save",
       "manage_scene.create" >>

GameObjectActions ==
    << "manage_gameobject.find",
       "manage_gameobject.create",
       "manage_gameobject.modify",
       "manage_gameobject.delete" >>

AssetActions ==
    << "manage_asset.search",
       "manage_asset.get_info",
       "manage_asset.create",
       "manage_asset.modify",
       "manage_asset.delete",
       "manage_asset.import",
       "manage_asset.refresh" >>

ScriptActions ==
    << "manage_script.read",
       "manage_script.create",
       "manage_script.update",
       "manage_script.delete" >>

ConsoleActions ==
    << "read_console.get",
       "read_console.clear" >>

MenuActions ==
    << "execute_menu_item.execute" >>

(* Faulty variants of the literal: an entry dropped, an entry repeated. *)
DefaultWhitelistMissingEntry ==
    EditorActions \o SceneActions \o GameObjectActions \o AssetActions
        \o ScriptActions \o ConsoleActions

DefaultWhitelistRepeatedEntry ==
    EditorActions \o SceneActions \o GameObjectActions \o AssetActions
        \o ScriptActions \o ConsoleActions \o <<"read_console.clear">>

DefaultWhitelist ==
    EditorActions \o SceneActions \o GameObjectActions \o AssetActions
        \o ScriptActions \o ConsoleActions \o MenuActions

----------------------------------------------------------------------------
(* Python list primitives *)

Range(s) == { s[k] : k \in DOMAIN s }

(* `x in lst`: linear scan with == on each element *)
RECURSIVE Contains(_, _)
Contains(lst, x) ==
    IF lst = <<>> THEN FALSE
    ELSE IF Head(lst) = x THEN TRUE
    ELSE Contains(Tail(lst), x)

(* lst.remove(x): drops the first element equal to x *)
RECURSIVE RemoveFirst(_, _)
RemoveFirst(lst, x) ==
    IF lst = <<>> THEN <<>>
    ELSE IF Head(lst) = x THEN Tail(lst)
    ELSE <<Head(lst)>> \o RemoveFirst(Tail(lst), x)

NoDuplicates(lst) ==
    \A a, b \in DOMAIN lst : lst[a] = lst[b] => a = b

----------------------------------------------------------------------------
(* Inputs *)

NoneArg == [isNone |-> TRUE, val |-> <<>>]
ListArg(lst) == [isNone |-> FALSE, val |-> lst]

(* Keyword arguments of the constructor calls the model makes.             *)
(* whitelisted_actions is None (also the value when omitted) or a list the *)
(* caller has just built.                                                  *)
KwArgs(port, buf, auto, wl) ==
    [unity_port |-> port, buffer_size |-> buf, auto_approve_tools |-> auto,
     whitelisted_actions |-> wl]

ConstructArgs ==
    { KwArgs(DEFAULT_UNITY_PORT, DEFAULT_BUFFER_SIZE, TRUE,  NoneArg),
      KwArgs(DEFAULT_UNITY_PORT, DEFAULT_BUFFER_SIZE, FALSE, NoneArg),
      KwArgs(0,                  DEFAULT_BUFFER_SIZE, TRUE,  NoneArg),
      KwArgs(DEFAULT_UNITY_PORT, -1,                  TRUE,  ListArg(<<"foo.bar">>)),
      KwArgs(DEFAULT_UNITY_PORT, DEFAULT_BUFFER_SIZE, TRUE,  ListArg(<<>>)),
      KwArgs(DEFAULT_UNITY_PORT, DEFAULT_BUFFER_SIZE, TRUE,  ListArg(<<"foo.bar">>)),
      KwArgs(DEFAULT_UNITY_PORT, DEFAULT_BUFFER_SIZE, FALSE, ListArg(<<"foo.bar">>)),
      KwArgs(DEFAULT_UNITY_PORT, DEFAULT_BUFFER_SIZE, TRUE,
             ListArg(<<"foo.bar", "foo.bar">>)) }

QueryActions ==
    {"manage_scene.load", "manage_gameobject.destroy", "foo.bar", "",
     "Manage_Scene.Load"}

EditActions == {"foo.bar", "manage_scene.load"}

----------------------------------------------------------------------------
(* __post_init__ and faulty variants of it.  h is the heap, ref the value the      *)
(* generated __init__ stored in self.whitelisted_actions.                  *)

(* variant: the hook leaves the field alone *)
PostInitNoPopulate(h, ref) ==
    [heap |-> h, ref |-> ref]

(* variant: `if not self.whitelisted_actions` instead of `is None` *)
PostInitFalsy(h, ref) ==
    IF ref = NoneRef \/ h[ref] = <<>>
    THEN [heap |-> Append(h, DefaultWhitelist), ref |-> Len(h) + 1]
    ELSE [heap |-> h, ref |-> ref]

(* variant: the default entries are added to a supplied list as well *)
PostInitMerge(h, ref) ==
    IF ref = NoneRef
    THEN [heap |-> Append(h, DefaultWhitelist), ref |-> Len(h) + 1]
    ELSE [heap |-> [h EXCEPT ![ref] = @ \o DefaultWhitelist], ref |-> ref]

(* variant: one module-level default list handed to every instance; it is   *)
(* the first list object ever allocated (the one the global `config` got). *)
PostInitShared(h, ref) ==
    IF ref = NoneRef
    THEN IF h = <<>>
         THEN [heap |-> Append(h, DefaultWhitelist), ref |-> 1]
         ELSE [heap |-> h, ref |-> 1]
    ELSE [heap |-> h, ref |-> ref]

PostInit(h, ref) ==
    IF ref = NoneRef
    THEN [heap |-> Append(h, DefaultWhitelist), ref |-> Len(h) + 1]
    ELSE [heap |-> h, ref |-> ref]

----------------------------------------------------------------------------
(* ServerConfig(...): the caller's list (if any) is an object on the heap, *)
(* the generated __init__ stores every argument as given, then             *)
(* __post_init__ runs.                                                     *)

NewInstance(port, buf, auto, ref) ==
    [ unity_host          |-> DEFAULT_UNITY_HOST,
      unity_port          |-> port,
      mcp_port            |-> DEFAULT_MCP_PORT,
      connection_timeout  |-> DEFAULT_CONNECTION_TIMEOUT,
      buffer_size         |-> buf,
      log_level           |-> DEFAULT_LOG_LEVEL,
      max_retries         |-> DEFAULT_MAX_RETRIES,
      retry_delay         |-> DEFAULT_RETRY_DELAY,
      auto_approve_tools  |-> auto,
      whitelisted_actions |-> ref ]

Contents(h, ref) == IF ref = NoneRef THEN <<>> ELSE h[ref]

CallRecord(argRef, arg, post) ==
    [ argRef |-> argRef,
      arg    |-> arg,
      resRef |-> post.ref,
      result |-> Contents(post.heap, post.ref) ]

LastRecord(op, inst, action, raised, value) ==
    [op |-> op, inst |-> inst, action |-> action, raised |-> raised, value |-> value]

Construct(kw) ==
    /\ Len(instances) < MaxInstances
    /\ LET wl     == kw.whitelisted_actions
           h1     == IF wl.isNone THEN heap ELSE Append(heap, wl.val)
           argRef == IF wl.isNone THEN NoneRef ELSE Len(h1)
           post   == PostInit(h1, argRef)
       IN  /\ heap' = post.heap
           /\ instances' = Append(instances, NewInstance(kw.unity_port, kw.buffer_size,
                                                      kw.auto_approve_tools, post.ref))
           /\ calls' = Append(calls, CallRecord(argRef, wl.val, post))
           /\ last' = LastRecord("construct", Len(instances) + 1, "", FALSE, FALSE)
    /\ UNCHANGED mutations

(* config = ServerConfig() at import time *)
GlobalPost == PostInit(<<>>, NoneRef)

Init ==
    /\ heap = GlobalPost.heap
    /\ instances = << NewInstance(DEFAULT_UNITY_PORT, DEFAULT_BUFFER_SIZE,
                                  DEFAULT_AUTO_APPROVE_TOOLS, GlobalPost.ref) >>
    /\ calls = << CallRecord(NoneRef, <<>>, GlobalPost) >>
    /\ last = LastRecord("construct", 1, "", FALSE, FALSE)
    /\ mutations = 0

----------------------------------------------------------------------------
(* The permission query: auto_approve_tools and action in                  *)
(* whitelisted_actions.  `and` short-circuits; `in` on None raises         *)
(* TypeError.                                                              *)

IsActionPermitted(cfg, h, action) ==
    IF ~cfg.auto_approve_tools
    THEN [raised |-> FALSE, value |-> FALSE]
    ELSE IF cfg.whitelisted_actions = NoneRef
    THEN [raised |-> TRUE, value |-> FALSE]
    ELSE [raised |-> FALSE, value |-> Contains(h[cfg.whitelisted_actions], action)]

Query(i, action) ==
    /\ i \in DOMAIN instances
    /\ LET r == IsActionPermitted(instances[i], heap, action)
       IN  last' = LastRecord("query", i, action, r.raised, r.value)
    /\ UNCHANGED <<heap, instances, calls, mutations>>

----------------------------------------------------------------------------
(* Writes the class leaves open: the dataclass is not frozen and the       *)
(* whitelist is a plain list.                                              *)

(* cfg.whitelisted_actions.append(action) *)
ListAppend(i, action) ==
    /\ i \in DOMAIN instances
    /\ mutations < MaxMutations
    /\ instances[i].whitelisted_actions # NoneRef
    /\ heap' = [heap EXCEPT ![instances[i].whitelisted_actions] = Append(@, action)]
    /\ last' = LastRecord("append", i, action, FALSE, FALSE)
    /\ mutations' = mutations + 1
    /\ UNCHANGED <<instances, calls>>

(* cfg.whitelisted_actions.remove(action); ValueError when absent *)
ListRemove(i, action) ==
    /\ i \in DOMAIN instances
    /\ mutations < MaxMutations
    /\ instances[i].whitelisted_actions # NoneRef
    /\ Contains(heap[instances[i].whitelisted_actions], action)
    /\ heap' = [heap EXCEPT ![instances[i].whitelisted_actions] = RemoveFirst(@, action)]
    /\ last' = LastRecord("remove", i, action, FALSE, FALSE)
    /\ mutations' = mutations + 1
    /\ UNCHANGED <<instances, calls>>

(* cfg.auto_approve_tools = value *)
SetAutoApprove(i, value) ==
    /\ i \in DOMAIN instances
    /\ mutations < MaxMutations
    /\ instances[i].auto_approve_tools # value
    /\ instances' = [instances EXCEPT ![i].auto_approve_tools = value]
    /\ last' = LastRecord("setattr", i, "", FALSE, value)
    /\ mutations' = mutations + 1
    /\ UNCHANGED <<heap, calls>>

----------------------------------------------------------------------------

Next ==
    \/ \E kw \in ConstructArgs : Construct(kw)
    \/ \E i \in 1..MaxInstances, action \in QueryActions : Query(i, action)
    \/ \E i \in 1..MaxInstances, action \in EditActions : ListAppend(i, action)
    \/ \E i \in 1..MaxInstances, action \in EditActions : ListRemove(i, action)
    \/ \E i \in 1..MaxInstances, value \in BOOLEAN : SetAutoApprove(i, value)

Spec == Init /\ [][Next]_vars

----------------------------------------------------------------------------
(* Properties *)

AllowedOf(i) == Contents(heap, instances[i].whitelisted_actions)

DefaultCall(i) == calls[i].argRef = NoneRef

(* The identifiers section 6 of the specification enumerates. *)
Section6Set ==
    { "manage_editor.get_state", "manage_editor.get_compilation_status",
      "manage_editor.refresh_assets", "manage_editor.save_assets",
      "manage_editor.recompile_scripts", "manage_editor.full_refresh",
      "manage_editor.get_tags", "manage_editor.get_layers",
      "manage_editor.add_tag", "manage_editor.remove_tag",
      "manage_editor.add_layer", "manage_editor.remove_layer",
      "manage_editor.play", "manage_editor.pause", "manage_editor.stop",
      "manage_scene.get_hierarchy", "manage_scene.load", "manage_scene.save",
      "manage_scene.create",
      "manage_gameobject.find", "manage_gameobject.create",
      "manage_gameobject.modify", "manage_gameobject.delete",
      "manage_asset.search", "manage_asset.get_info", "manage_asset.create",
      "manage_asset.modify", "manage_asset.delete", "manage_asset.import",
      "manage_asset.refresh",
      "manage_script.read", "manage_script.create", "manage_script.update",
      "manage_script.delete",
      "read_console.get", "read_console.clear", "execute_menu_item.execute" }

(* C1: a permission query never raises, and answers TRUE exactly when the  *)
(* instance's auto_approve_tools is TRUE and the identifier is, by string  *)
(* equality, an element of its whitelist; so it answers FALSE for every    *)
(* identifier when auto_approve_tools is FALSE.                            *)
C1_QueryIsGateAndMembership ==
    last.op = "query" =>
        /\ ~last.raised
        /\ last.value = ( /\ instances[last.inst].auto_approve_tools
                          /\ last.action \in Range(AllowedOf(last.inst)) )

C1_Witness ==
    /\ last.op = "query"
    /\ last.action = "manage_scene.load"
    /\ last.action \in Range(AllowedOf(last.inst))
    /\ ~instances[last.inst].auto_approve_tools
    /\ last.value = FALSE

(* C2 as stated: a construction without a whitelist yields exactly 28      *)
(* distinct identifiers, the set of section 6.                             *)
C2_Original ==
    \A i \in DOMAIN calls :
        DefaultCall(i) =>
            /\ Cardinality(Range(calls[i].result)) = 28
            /\ Range(calls[i].result) = Section6Set

(* C2 amended: a construction without a whitelist yields exactly 37        *)
(* distinct identifiers, the set of section 6.                             *)
C2_DefaultIsSection6Set ==
    \A i \in DOMAIN calls :
        DefaultCall(i) =>
            /\ Cardinality(Range(calls[i].result)) = 37
            /\ Range(calls[i].result) = Section6Set

C2_Witness ==
    /\ Len(calls) >= 2
    /\ DefaultCall(2)
    /\ Len(calls[2].result) = 37

(* C3: after any constructor call has returned, whitelisted_actions of     *)
(* every instance (the global one included) refers to a list, never None.  *)
C3_NeverNone ==
    \A i \in DOMAIN instances :
        /\ instances[i].whitelisted_actions # NoneRef
        /\ instances[i].whitelisted_actions \in DOMAIN heap
        /\ calls[i].resRef # NoneRef

C3_Witness ==
    /\ Len(instances) >= 2
    /\ \E i, j \in DOMAIN instances :
          /\ DefaultCall(i) /\ ~DefaultCall(j)
          /\ instances[i].whitelisted_actions # NoneRef
          /\ instances[j].whitelisted_actions # NoneRef

(* C4: a supplied whitelist is stored as given: the very list the caller   *)
(* passed, with the same elements, nothing of the default merged in; an    *)
(* identifier absent from the supplied list is absent from the result.     *)
C4_SuppliedReplacesDefault ==
    \A i \in DOMAIN calls :
        ~DefaultCall(i) =>
            /\ calls[i].resRef = calls[i].argRef
            /\ calls[i].result = calls[i].arg
            /\ \A a \in Section6Set :
                  ~Contains(calls[i].arg, a) => ~Contains(calls[i].result, a)

C4_Witness ==
    /\ last.op = "query"
    /\ last.action = "manage_scene.load"
    /\ calls[last.inst].arg = <<"foo.bar">>
    /\ ~DefaultCall(last.inst)
    /\ mutations = 0
    /\ instances[last.inst].auto_approve_tools
    /\ last.value = FALSE

(* C5: a supplied empty whitelist stays empty, and the hook allocates a    *)
(* default list only when the argument was None (omitted).                 *)
C5_EmptyIsNotOmitted ==
    \A i \in DOMAIN calls :
        /\ (~DefaultCall(i) /\ calls[i].arg = <<>>) => calls[i].result = <<>>
        /\ calls[i].resRef # calls[i].argRef => DefaultCall(i)

C5_Witness ==
    /\ last.op = "query"
    /\ ~DefaultCall(last.inst)
    /\ calls[last.inst].arg = <<>>
    /\ AllowedOf(last.inst) = <<>>
    /\ instances[last.inst].auto_approve_tools
    /\ last.action \in Section6Set
    /\ last.value = FALSE

(* C6 as stated: no constructed instance has unity_port outside            *)
(* (0, 65535] or a buffer_size that is not positive.                       *)
C6_FieldsValidated ==
    \A i \in DOMAIN instances :
        /\ instances[i].unity_port \in 1..65535
        /\ instances[i].buffer_size > 0

(* C7 as stated: once an instance exists, no step changes any of its       *)
(* fields or the contents of its whitelist.                                *)
C7_ReadOnlyAfterConstruction ==
    [][ \A i \in DOMAIN instances :
            /\ instances'[i] = instances[i]
            /\ Contents(heap', instances'[i].whitelisted_actions) = AllowedOf(i) ]_vars

(* C8: any two constructions without a whitelist return set-equal          *)
(* whitelists, whatever happened between them.                             *)
C8_DefaultDeterministic ==
    \A i, j \in DOMAIN calls :
        (DefaultCall(i) /\ DefaultCall(j)) =>
            Range(calls[i].result) = Range(calls[j].result)

C8_Witness ==
    /\ last.op = "construct"
    /\ last.inst = 2
    /\ DefaultCall(1) /\ DefaultCall(2)
    /\ mutations >= 1
    /\ AllowedOf(1) # calls[1].result

C10_FreshDefaultList ==
    [][ /\ \A i, j \in DOMAIN instances :
              ( /\ i # j
                /\ DefaultCall(i) /\ DefaultCall(j)
                /\ last'.op \in {"append", "remove"}
                /\ last'.inst = i
                /\ heap' # heap )
              => Contents(heap', instances'[j].whitelisted_actions) = AllowedOf(j)
        /\ ( /\ Len(calls') > Len(calls)
             /\ calls'[Len(calls')].argRef = NoneRef )
           => calls'[Len(calls')].result = calls[1].result ]_vars

C10_Witness ==
    /\ last.op \in {"append", "remove"}
    /\ Len(instances) >= 2
    /\ DefaultCall(1) /\ DefaultCall(2)
    /\ AllowedOf(last.inst) # calls[last.inst].result
    /\ \E j \in DOMAIN instances : j # last.inst /\ AllowedOf(j) = calls[j].result

=============================================================================
